---------------------------- MODULE Spec2Model ----------------------------
(***************************************************************************)
(* A model of ipm.e2e (src/src/ipm/e2e.py): the tree walker, the matcher,  *)
(* the query engine, the action dispatcher, the expectation engine and the *)
(* session returned by run(), together with the counter application of     *)
(* src/examples/contador.py as one application under test.                 *)
(*                                                                         *)
(* Time is counted in tenths of a second.  An accessible object is a node  *)
(* id; the accessible tree (the at-spi adapter's view) maps a node id to   *)
(* its role, name, text, action names and children.  A python exception    *)
(* is the string of its class name, "none" when nothing was raised.        *)
(***************************************************************************)
EXTENDS Integers, Sequences, FiniteSets, TLC

VARIABLES
    pc,         \* position of the test script / of run()
    process,    \* the subprocess.Popen: "none", "running", "killed"
    kills,      \* number of process.kill() calls made so far
    desktop,    \* names of the children of Atspi.get_desktop(0)
    shown,      \* the time at which the application appeared in the desktop, or None
    clock,      \* time.time() - start inside _wait_for_app
    timeout,    \* the effective timeout of _wait_for_app
    app,        \* SUT.app: the application's root node, or None
    atspi,      \* the accessible tree of the application
    count,      \* contador.py: the global `count`
    objs,       \* the iterable the test script holds (a query result)
    query,      \* the conditions of the query that produced objs
    dispatches, \* successful do('click').on(objs) calls since objs was obtained
    last,       \* the last library call of the script and its outcome
    exc         \* the exception propagating out of the script, or "none"

vars == <<pc, process, kills, desktop, shown, clock, timeout, app, atspi, count,
          objs, query, dispatches, last, exc>>

\* None where an object or an index is expected; a None child of the desktop
None == -1
NoneChild == "<None>"

(***************************************************************************)
(* Bounds of the model.                                                    *)
(***************************************************************************)
MaxNodes == 3       \* nodes of a generated accessible tree
MaxClicks == 4      \* do_action('click') calls the counter accepts
MaxConds == 2       \* conditions in one generated condition set
MaxRoots == 2       \* roots given to one query

(***************************************************************************)
(* Program constants, in tenths of a second.                               *)
(***************************************************************************)
DefaultTimeout == 50
SleepTime == 6

(***************************************************************************)
(* Either: a value or an error (src/src/ipm/e2e.py:77).                    *)
(***************************************************************************)
Ok(v) == [ok |-> TRUE, v |-> v]
Err(cls, msg) == [ok |-> FALSE, v |-> msg, cls |-> cls]

is_error(x) == ~x.ok

(***************************************************************************)
(* The accessible tree adapter and the small helpers on it.                *)
(***************************************************************************)
Widget(role, name, text, actions, children) ==
    [role |-> role, name |-> name, text |-> text,
     actions |-> actions, children |-> children,
     props |-> {}, getters |-> {}]

_pprint(t, obj) == t[obj].role \o "('" \o t[obj].name \o "')"

_get_action_idx_first(t, obj, name) ==
    IF t[obj].actions = <<>> THEN None ELSE 0

_get_action_idx(t, obj, name) ==
    LET hits == {i \in 0..(Len(t[obj].actions) - 1) : t[obj].actions[i + 1] = name}
    IN  IF hits = {} THEN None
        ELSE CHOOSE i \in hits : \A j \in hits : i <= j

_get_actions_names(t, obj) == t[obj].actions

obj_get_attr_default(t, obj, name) ==
    IF name = "role" THEN Ok(t[obj].role)
    ELSE IF name = "name" THEN Ok(t[obj].name)
    ELSE IF name = "text" THEN Ok(t[obj].text)
    ELSE IF name \in t[obj].props THEN Ok("<" \o name \o ">")
    ELSE IF name \in t[obj].getters THEN Ok("<get_" \o name \o ">")
    ELSE Ok("")

obj_get_attr(t, obj, name) ==
    IF name = "role" THEN Ok(t[obj].role)
    ELSE IF name = "name" THEN Ok(t[obj].name)
    ELSE IF name = "text" THEN Ok(t[obj].text)
    ELSE IF name \in t[obj].props THEN Ok("<" \o name \o ">")
    ELSE IF name \in t[obj].getters THEN Ok("<get_" \o name \o ">")
    ELSE Err("AttributeError", _pprint(t, obj) \o " has no attribute " \o name)

obj_children(t, obj) == t[obj].children

(***************************************************************************)
(* Tree paths and the tree walker.                                         *)
(***************************************************************************)
NthOf(i, n) == [i |-> i, n |-> n]

is_last(nth_of) == nth_of.i = nth_of.n - 1

ROOT_TREE_PATH == <<NthOf(0, 1)>>

RECURSIVE tree_walk(_, _, _)
RECURSIVE tree_walk_children(_, _, _, _)

\* the for loop of tree_walk over enumerate(children), from the k-th child on
tree_walk_children(t, children, k, path) ==
    IF k > Len(children) THEN <<>>
    ELSE tree_walk(t, children[k], Append(path, NthOf(k - 1, Len(children))))
         \o tree_walk_children(t, children, k + 1, path)

tree_walk_postorder(t, root, path) ==
    tree_walk_children(t, obj_children(t, root), 1, path)
    \o <<[path |-> path, obj |-> root]>>

tree_walk(t, root, path) ==
    <<[path |-> path, obj |-> root]>>
    \o tree_walk_children(t, obj_children(t, root), 1, path)

(***************************************************************************)
(* Match conditions (MatchArgs): a function from condition names to        *)
(* condition values.  A value is an int (for nth), a str, a re.Pattern or  *)
(* a callable; callables are drawn from a few named predicates.            *)
(***************************************************************************)
IntV(n) == [type |-> "int", v |-> n]
StrV(s) == [type |-> "str", v |-> s]
ReV(prefix, dotstar) == [type |-> "re.Pattern", prefix |-> prefix, dotstar |-> dotstar]
CallV(f) == [type |-> "callable", f |-> f]

\* re.compile('^' + prefix + ('.*' if dotstar else '')).fullmatch(s) is not None
fullmatch(pattern, s) ==
    IF pattern.dotstar
    THEN /\ Len(s) >= Len(pattern.prefix)
         /\ SubSeq(s, 1, Len(pattern.prefix)) = pattern.prefix
    ELSE s = pattern.prefix

\* value(obj, path) for the value of a `when` condition
call_when(f, t, obj, path) ==
    IF f = "is_last" THEN is_last(path[Len(path)])
    ELSE IF f = "has_actions" THEN t[obj].actions # <<>>
    ELSE FALSE

\* value(attr_value) for a callable attribute condition
call_pred(f, attr_value) ==
    IF f = "nonempty" THEN (is_error(attr_value) \/ attr_value.v # "")
    ELSE IF f = "is_error" THEN is_error(attr_value)
    ELSE FALSE

_match_nth_from_start(t, obj, path, name, value) ==
    IF name = "nth" THEN value.v = path[Len(path)].i
    ELSE FALSE

_match(t, obj, path, name, value) ==
    IF name = "nth" THEN
        LET nth_of == path[Len(path)]
            idx == IF value.v >= 0 THEN value.v ELSE nth_of.n + value.v
        IN  idx = nth_of.i
    ELSE IF name = "when" THEN call_when(value.f, t, obj, path)
    ELSE IF value.type = "str" THEN
        LET attr_value == obj_get_attr(t, obj, name)
        IN  ~is_error(attr_value) /\ attr_value.v = value.v
    ELSE IF value.type = "re.Pattern" THEN
        LET attr_value == obj_get_attr(t, obj, name)
        IN  IF is_error(attr_value) THEN FALSE
            ELSE fullmatch(value, attr_value.v)
    ELSE call_pred(value.f, obj_get_attr(t, obj, name))

\* all(_match(obj, path, name, value) for name, value in kwargs.items())
matches_any(t, obj, path, kwargs) ==
    \E name \in DOMAIN kwargs : _match(t, obj, path, name, kwargs[name])

matches(t, obj, path, kwargs) ==
    \A name \in DOMAIN kwargs : _match(t, obj, path, name, kwargs[name])

Objs(walk) == [k \in 1..Len(walk) |-> walk[k].obj]

_find_all_descendants(t, root, kwargs) ==
    IF Cardinality(DOMAIN kwargs) = 0
    THEN Objs(tree_walk(t, root, ROOT_TREE_PATH))
    ELSE Objs(SelectSeq(tree_walk(t, root, ROOT_TREE_PATH),
                        LAMBDA e : matches(t, e.obj, e.path, kwargs)))

\* root_s is one Atspi.Object or a list of them
AsObject(o) == [type |-> "Object", v |-> o]
AsList(os) == [type |-> "list", v |-> os]

RECURSIVE extend_all(_, _, _, _)
\* the loop `for root in root_s: result.extend(...)` from the k-th root on
extend_all(t, roots, k, kwargs) ==
    IF k > Len(roots) THEN <<>>
    ELSE _find_all_descendants(t, roots[k], kwargs) \o extend_all(t, roots, k + 1, kwargs)

objects_in_first_root(t, root_s, kwargs) ==
    LET roots == IF root_s.type = "Object" THEN <<root_s.v>> ELSE root_s.v
    IN  IF roots = <<>> THEN <<>> ELSE _find_all_descendants(t, roots[1], kwargs)

objects_in(t, root_s, kwargs) ==
    LET roots == IF root_s.type = "Object" THEN <<root_s.v>> ELSE root_s.v
    IN  extend_all(t, roots, 1, kwargs)

(***************************************************************************)
(* Python iterables of objects: a list, or a single-pass iterator (a       *)
(* generator, iter(list)) that has already yielded its first pos items.    *)
(***************************************************************************)
List(items) == [type |-> "list", items |-> items, pos |-> 0]
Iterator(items) == [type |-> "iterator", items |-> items, pos |-> 0]

\* where iter(o) starts: a list is traversed anew, an iterator goes on
Start(o) == IF o.type = "list" THEN 0 ELSE o.pos

\* o after n more items were drawn from iter(o)
Advance(o, n) ==
    IF o.type = "list" THEN o
    ELSE [o EXCEPT !.pos = IF o.pos + n > Len(o.items) THEN Len(o.items) ELSE o.pos + n]

\* what `for obj in o` goes through
Remaining(o) == SubSeq(o.items, Start(o) + 1, Len(o.items))

(***************************************************************************)
(* The action dispatcher (class Action).  An outcome is the exception      *)
(* raised (or "none"), the do_action calls made, as <<obj, idx>>, in       *)
(* order, the message of the exception and the iterable as the call        *)
(* leaves it.                                                              *)
(***************************************************************************)
Outcome(e, invoked, msg, o) == [exc |-> e, invoked |-> invoked, msg |-> msg, objs |-> o]

_do_action(t, action_name, obj) ==
    LET idx == _get_action_idx(t, obj, action_name)
    IN  IF idx = None
        THEN [exc |-> "NotFoundError", invoked |-> <<>>,
              msg |-> [widget |-> _pprint(t, obj), action |-> action_name,
                       names |-> _get_actions_names(t, obj)]]
        ELSE [exc |-> "none", invoked |-> <<<<obj, idx>>>>, msg |-> <<>>]

RECURSIVE on_all_from(_, _, _, _)
\* the loop of on_all from the k-th remaining object on: <<outcome, objects drawn>>
on_all_from(t, action_name, rem, k) ==
    IF k > Len(rem) THEN <<[exc |-> "none", invoked |-> <<>>, msg |-> <<>>], 0>>
    ELSE LET r == _do_action(t, action_name, rem[k])
         IN  IF r.exc # "none" THEN <<r, 1>>
             ELSE LET rest == on_all_from(t, action_name, rem, k + 1)
                  IN  <<[rest[1] EXCEPT !.invoked = r.invoked \o @], rest[2] + 1>>

on_all(t, action_name, o) ==
    LET r == on_all_from(t, action_name, Remaining(o), 1)
    IN  Outcome(r[1].exc, r[1].invoked, r[1].msg, Advance(o, r[2]))

on_first(t, action_name, o) ==
    IF o.type = "list"
    THEN Outcome("TypeError", <<>>, "'list' object is not an iterator", o)
    ELSE IF o.pos >= Len(o.items)
    THEN Outcome("StopIteration", <<>>, <<>>, o)
    ELSE LET r == _do_action(t, action_name, o.items[o.pos + 1])
         IN  Outcome(r.exc, r.invoked, r.msg, Advance(o, 1))

on_unchecked(t, action_name, o) ==
    LET p == Start(o)
    IN  IF p >= Len(o.items)
        THEN Outcome("StopIteration", <<>>, <<>>, o)
        ELSE LET r == _do_action(t, action_name, o.items[p + 1])
             IN  Outcome(r.exc, r.invoked, r.msg, Advance(o, 1))

on(t, action_name, o) ==
    LET p == Start(o)
    IN  IF p >= Len(o.items)
        THEN Outcome("StopIteration", <<>>, <<>>, o)
        ELSE IF p + 1 < Len(o.items)
        THEN Outcome("AssertionError", <<>>,
                     [action |-> action_name, objs |-> o.items], Advance(o, 2))
        ELSE LET r == _do_action(t, action_name, o.items[p + 1])
             IN  Outcome(r.exc, r.invoked, r.msg, Advance(o, 2))

(***************************************************************************)
(* The expectation engine (class Expectation).                             *)
(***************************************************************************)
\* lambda obj: obj_get_attr(obj, 'text') == text
predicate(t, obj, text) ==
    LET attr_value == obj_get_attr(t, obj, "text")
    IN  ~is_error(attr_value) /\ attr_value.v = text

\* the 1-based positions in rem where the predicate holds / does not hold
Holds(t, rem, text) == {k \in 1..Len(rem) : predicate(t, rem[k], text)}
Fails(t, rem, text) == {k \in 1..Len(rem) : ~predicate(t, rem[k], text)}
Least(S) == CHOOSE k \in S : \A j \in S : k <= j

\* [exc, ret, objs]: the exception, the returned bool, the iterable afterwards
_check_one_as_any(t, o, which_one, text) ==
    LET rem == Remaining(o)
    IN  [exc |-> "none", ret |-> Holds(t, rem, text) # {}, objs |-> Advance(o, Len(rem))]

_check(t, o, which_one, text) ==
    LET rem == Remaining(o)
    IN  IF which_one = "all" THEN
            \* all() stops at the first object that fails the predicate
            IF Fails(t, rem, text) = {}
            THEN [exc |-> "none", ret |-> TRUE, objs |-> Advance(o, Len(rem))]
            ELSE [exc |-> "none", ret |-> FALSE,
                  objs |-> Advance(o, Least(Fails(t, rem, text)))]
        ELSE IF which_one = "any" THEN
            \* any() stops at the first object that satisfies the predicate
            IF Holds(t, rem, text) = {}
            THEN [exc |-> "none", ret |-> FALSE, objs |-> Advance(o, Len(rem))]
            ELSE [exc |-> "none", ret |-> TRUE,
                  objs |-> Advance(o, Least(Holds(t, rem, text)))]
        ELSE IF which_one = "first" THEN
            \* next(self.objects, _MARK)
            IF o.type = "list"
            THEN [exc |-> "TypeError", ret |-> FALSE, objs |-> o]
            ELSE IF o.pos >= Len(o.items)
            THEN [exc |-> "none", ret |-> FALSE, objs |-> o]
            ELSE [exc |-> "none", ret |-> predicate(t, o.items[o.pos + 1], text),
                  objs |-> Advance(o, 1)]
        ELSE IF which_one = "one" THEN
            [exc |-> "none", ret |-> Cardinality(Holds(t, rem, text)) = 1,
             objs |-> Advance(o, Len(rem))]
        ELSE [exc |-> "RuntimeError", ret |-> FALSE, objs |-> o]

\* the lines of the failure message, one per object of `for obj in self.objects`
Texts(t, o) ==
    [k \in 1..Len(Remaining(o)) |->
        <<_pprint(t, Remaining(o)[k]), obj_get_attr(t, Remaining(o)[k], "text").v>>]

to_show(t, o, which_one, text) ==
    LET c == _check(t, o, which_one, text)
    IN  IF c.exc # "none" THEN Outcome(c.exc, <<>>, <<>>, c.objs)
        ELSE IF ~c.ret
        THEN Outcome("AssertionError", <<>>,
                     [which_one |-> which_one, text |-> text, texts |-> Texts(t, c.objs)],
                     Advance(c.objs, Len(Remaining(c.objs))))
        ELSE Outcome("none", <<>>, <<>>, c.objs)

(***************************************************************************)
(* Applications under test.  Contador is the accessible tree of            *)
(* src/examples/contador.py: application > frame > filler > label, button. *)
(* The other trees are generated: every rooted tree on at most MaxNodes    *)
(* nodes (root 1, children in increasing id order), each node a label or   *)
(* a button.                                                               *)
(***************************************************************************)
AppName == "contador.py-test-1"

\* contador.py: veces = "1 vez" if count == 1 else f"{count} veces"
LabelTextPlural(n) == "Has pulsado " \o ToString(n) \o " veces"

LabelText(n) ==
    "Has pulsado " \o (IF n = 1 THEN "1 vez" ELSE ToString(n) \o " veces")

\* a label also has a direct property `value`, a button a getter get_description
Label(children) ==
    [Widget("label", "", LabelText(0), <<>>, children) EXCEPT !.props = {"value"}]
Button(children) ==
    [Widget("push button", "Contar", "", <<"click">>, children)
        EXCEPT !.getters = {"description"}]

label1 == 4
button == 5

Contador ==
    (1 :> Widget("application", AppName, "", <<>>, <<2>>)) @@
    (2 :> Widget("frame", "Contador", "", <<>>, <<3>>)) @@
    (3 :> Widget("filler", "", "", <<>>, <<label1, button>>)) @@
    (label1 :> Label(<<>>)) @@
    (button :> Button(<<>>))

\* the elements of a set of numbers, in increasing order
Sorted(S) ==
    [k \in 1..Cardinality(S) |-> CHOOSE c \in S : Cardinality({d \in S : d < c}) = k - 1]

RECURSIVE UnderRoot(_, _, _)
\* node i reaches the root 1 by at most fuel parent steps
UnderRoot(parent, i, fuel) ==
    \/ i = 1
    \/ fuel > 0 /\ UnderRoot(parent, parent[i], fuel - 1)

TreeOf(n, parent, kind) ==
    [o \in 1..n |->
        LET children == Sorted({c \in 2..n : parent[c] = o})
        IN  IF kind[o] = "label" THEN Label(children) ELSE Button(children)]

Trees ==
    UNION {
        {TreeOf(n, parent, kind) :
            parent \in {p \in [2..n -> 1..n] : \A i \in 2..n : UnderRoot(p, i, n)},
            kind \in [1..n -> {"label", "button"}]}
        : n \in 1..MaxNodes}

Apps == Trees \cup {Contador}

\* button.connect('clicked', on_contar_clicked): the tree after the handler ran
on_contar_clicked_plural(t, n) ==
    [t EXCEPT ![label1].text = LabelTextPlural(n)]

on_contar_clicked(t, n) ==
    [t EXCEPT ![label1].text = LabelText(n)]

\* how many of the do_action calls reach the connected handler
Clicks(t, invoked) ==
    IF t = <<>> \/ DOMAIN t # DOMAIN Contador \/ t[1].role # "application" THEN 0
    ELSE Cardinality({k \in 1..Len(invoked) :
                        invoked[k][1] = button /\ t[button].actions[invoked[k][2] + 1] = "click"})

\* the application after it served the do_action calls
Served(t, n, invoked) ==
    IF Clicks(t, invoked) = 0 THEN t ELSE on_contar_clicked(t, n + Clicks(t, invoked))

(***************************************************************************)
(* Inputs of the test script.                                              *)
(***************************************************************************)
NoArgs == [name \in {} |-> IntV(0)]

ButtonQuery == [role |-> StrV("push button"), name |-> StrV("Contar")]
LabelQuery == [role |-> StrV("label")]
LabelTextQuery == [role |-> StrV("label"), text |-> ReV("Has pulsado", TRUE)]

Queries == {NoArgs, ButtonQuery, LabelQuery, LabelTextQuery}

ActionNames == {"click", "press"}

ShownTexts == {"", "Has pulsado 0 veces", "Has pulsado 1 vez", "Has pulsado 4 veces"}

Quantifiers == {"all", "any", "first", "one"}

\* timeout arguments of run(); 0 also stands for None (no timeout given)
Timeouts == {0, 10}

NoCall == [op |-> "none", exc |-> "none"]

(***************************************************************************)
(* The session: run(), _wait_for_app(), SUT.__enter__, SUT.__exit__.       *)
(***************************************************************************)
Init ==
    /\ pc = "start"
    /\ process = "none"
    /\ kills = 0
    /\ desktop = <<NoneChild, "other">>
    /\ shown = None
    /\ clock = 0
    /\ timeout = 0
    /\ app = None
    /\ atspi = <<>>
    /\ count = 0
    /\ objs = List(<<>>)
    /\ query = NoArgs
    /\ dispatches = 0
    /\ last = NoCall
    /\ exc = "none"

\* run() up to the first evaluation of the loop condition of _wait_for_app
Run(t) ==
    /\ pc = "start"
    /\ process' = "running"
    /\ timeout' = IF t = 0 THEN DefaultTimeout ELSE t
    /\ clock' = 0
    /\ app' = None
    /\ pc' = "waiting"
    /\ UNCHANGED <<kills, desktop, shown, atspi, count, objs, query, dispatches, last, exc>>

\* the times since the previous poll, at which an application that is seen
\* now for the first time may have appeared
ShowTimes == IF clock = 0 THEN {0} ELSE (clock - SleepTime + 1)..clock

\* the launched application registers itself in the desktop, at time at
AppShowsUp(t, at) ==
    /\ pc = "waiting"
    /\ process = "running"
    /\ \A k \in 1..Len(desktop) : desktop[k] # AppName
    /\ desktop' = Append(desktop, AppName)
    /\ shown' = at
    /\ atspi' = t
    /\ UNCHANGED <<pc, process, kills, clock, timeout, app, count, objs, query,
                   dispatches, last, exc>>

\* next(gen, None) over the children of the desktop
FirstChild(d, name) ==
    LET hits == {k \in 1..Len(d) : d[k] # NoneChild}
    IN  IF hits = {} THEN None ELSE 1

FirstNamed(d, name) ==
    LET hits == {k \in 1..Len(d) : d[k] # NoneChild /\ d[k] = name}
    IN  IF hits = {} THEN None ELSE 1

\* one iteration of the loop of _wait_for_app
Poll ==
    /\ pc = "waiting"
    /\ app = None /\ clock < timeout
    /\ app' = FirstNamed(desktop, AppName)
    /\ clock' = IF app' = None THEN clock + SleepTime ELSE clock
    /\ UNCHANGED <<pc, process, kills, desktop, shown, timeout, atspi, count, objs, query,
                   dispatches, last, exc>>

\* the loop of _wait_for_app ends and run() returns SUT(process, app, path)
WaitReturn ==
    /\ pc = "waiting"
    /\ ~(app = None /\ clock < timeout)
    /\ pc' = "returned"
    /\ UNCHANGED <<process, kills, desktop, shown, clock, timeout, app, atspi, count,
                   objs, query, dispatches, last, exc>>

\* `with run(...) as sut:` calls SUT.__enter__; the times of the wait are
\* not observed any more
Enter ==
    /\ pc = "returned"
    /\ clock' = 0
    /\ timeout' = 0
    /\ shown' = IF shown = None THEN None ELSE 0
    /\ IF app = None
       THEN /\ exc' = "RuntimeError"
            /\ pc' = "failed"
       ELSE /\ exc' = exc
            /\ pc' = "body"
    /\ UNCHANGED <<process, kills, desktop, app, atspi, count, objs, query,
                   dispatches, last>>

ExitOnSuccess ==
    /\ pc = "exiting"
    /\ IF process # "none" /\ exc = "none"
       THEN /\ process' = "killed"
            /\ kills' = kills + 1
       ELSE UNCHANGED <<process, kills>>
    /\ pc' = "done"
    /\ UNCHANGED <<desktop, shown, clock, timeout, app, atspi, count, objs, query,
                   dispatches, last, exc>>

\* SUT.__exit__, called when the body of the with statement is left
Exit ==
    /\ pc = "exiting"
    /\ IF process # "none"
       THEN /\ process' = "killed"
            /\ kills' = kills + 1
       ELSE UNCHANGED <<process, kills>>
    /\ pc' = "done"
    /\ UNCHANGED <<desktop, shown, clock, timeout, app, atspi, count, objs, query,
                   dispatches, last, exc>>

(***************************************************************************)
(* The statements of the body of the with statement.                       *)
(***************************************************************************)
\* nodes = objects_in(sut.app, **kwargs), or iter(...) of it
Query(kwargs, as_iter) ==
    /\ pc = "body"
    /\ LET result == objects_in(atspi, AsObject(app), kwargs)
       IN  /\ objs' = IF as_iter THEN Iterator(result) ELSE List(result)
           /\ last' = [op |-> "objects_in", exc |-> "none"]
    /\ query' = kwargs
    /\ UNCHANGED <<pc, process, kills, desktop, shown, clock, timeout, app, atspi, count,
                   dispatches, exc>>

\* a library call of the body made and its outcome r: an exception leaves the body
Called(op, arg, r, then) ==
    /\ last # NoCall    \* the nodes were obtained by a query
    /\ count + Clicks(atspi, r.invoked) <= MaxClicks
    /\ count' = count + Clicks(atspi, r.invoked)
    /\ atspi' = Served(atspi, count, r.invoked)
    /\ last' = [op |-> op, arg |-> arg, exc |-> r.exc, invoked |-> r.invoked,
                msg |-> r.msg, given |-> objs]
    /\ objs' = r.objs
    /\ exc' = r.exc
    /\ pc' = IF r.exc = "none" THEN then ELSE "exiting"
    /\ UNCHANGED <<process, kills, desktop, shown, clock, timeout, app, query>>

\* do(action_name).on(nodes)
DoOn(action_name) ==
    /\ pc = "body"
    /\ Called("on", action_name, on(atspi, action_name, objs), "body")
    /\ UNCHANGED dispatches

\* do(action_name).on_first(nodes)
DoOnFirst(action_name) ==
    /\ pc = "body"
    /\ Called("on_first", action_name, on_first(atspi, action_name, objs), "body")
    /\ UNCHANGED dispatches

\* do(action_name).on_all(nodes)
DoOnAll(action_name) ==
    /\ pc = "body"
    /\ Called("on_all", action_name, on_all(atspi, action_name, objs), "body")
    /\ UNCHANGED dispatches

\* expect_<which_one>(nodes).to_show(text)
Expect(which_one, text) ==
    /\ pc = "body"
    /\ Called("to_show", <<which_one, text>>, to_show(atspi, objs, which_one, text), "body")
    /\ UNCHANGED dispatches

\* the body ends without an exception
BodyEnd ==
    /\ pc = "body"
    /\ pc' = "exiting"
    /\ UNCHANGED <<process, kills, desktop, shown, clock, timeout, app, atspi, count, objs,
                   query, dispatches, last, exc>>

Next ==
    \/ \E t \in Timeouts : Run(t)
    \/ \E t \in Apps, at \in ShowTimes : AppShowsUp(t, at)
    \/ Poll
    \/ WaitReturn
    \/ Enter
    \/ Exit
    \/ \E kwargs \in Queries, as_iter \in BOOLEAN : Query(kwargs, as_iter)
    \/ \E action_name \in ActionNames : DoOn(action_name)
    \/ \E action_name \in ActionNames : DoOnFirst(action_name)
    \/ \E action_name \in ActionNames : DoOnAll(action_name)
    \/ \E which_one \in Quantifiers, text \in ShownTexts : Expect(which_one, text)
    \/ BodyEnd

Spec == Init /\ [][Next]_vars

(***************************************************************************)
(* run() alone, launching the counter application.  The interpreter keeps  *)
(* executing the loop of _wait_for_app, so an enabled iteration or return  *)
(* is eventually taken; the application owes nothing.                      *)
(***************************************************************************)
NextRun ==
    \/ \E t \in Timeouts : Run(t)
    \/ \E at \in ShowTimes : AppShowsUp(Contador, at)
    \/ Poll
    \/ WaitReturn

SpecRun == Init /\ [][NextRun]_vars /\ WF_vars(Poll) /\ WF_vars(WaitReturn)

(***************************************************************************)
(* The third test of src/examples/demo-test-con-libreria.py on the counter *)
(* application, with any number of clicks up to MaxClicks: the buttons are *)
(* queried once, clicked with do('click').on(buttons), then the labels are *)
(* queried and an expectation is checked.  It starts inside the body of    *)
(* the with statement.                                                     *)
(***************************************************************************)
InitCounter ==
    /\ pc = "t3"
    /\ process = "running"
    /\ kills = 0
    /\ desktop = <<NoneChild, "other", AppName>>
    /\ shown = 0
    /\ clock = 0
    /\ timeout = 0
    /\ app = 1
    /\ atspi = Contador
    /\ count = 0
    /\ objs = List(<<>>)
    /\ query = NoArgs
    /\ dispatches = 0
    /\ last = NoCall
    /\ exc = "none"

\* buttons = e2e.objects_in(sut.app, role= 'push button', name= 'Contar')
T3Buttons ==
    /\ pc = "t3"
    /\ objs' = List(objects_in(atspi, AsObject(app), ButtonQuery))
    /\ query' = ButtonQuery
    /\ last' = [op |-> "objects_in", exc |-> "none"]
    /\ pc' = "t3_click"
    /\ UNCHANGED <<process, kills, desktop, shown, clock, timeout, app, atspi, count,
                   dispatches, exc>>

\* e2e.do('click').on(buttons)
T3Click ==
    /\ pc = "t3_click"
    /\ dispatches < MaxClicks
    /\ Called("on", "click", on(atspi, "click", objs), "t3_click")
    /\ dispatches' = IF exc' = "none" THEN dispatches + 1 ELSE dispatches

\* e2e.objects_in(sut.app, role= "label", ...)
T3Labels(kwargs) ==
    /\ pc = "t3_click"
    /\ objs' = List(objects_in(atspi, AsObject(app), kwargs))
    /\ query' = kwargs
    /\ last' = [op |-> "objects_in", exc |-> "none"]
    /\ pc' = "t3_expect"
    /\ UNCHANGED <<process, kills, desktop, shown, clock, timeout, app, atspi, count,
                   dispatches, exc>>

\* e2e.expect_<which_one>(labels).to_show(text), the last statement of the body
T3Expect(which_one, text) ==
    /\ pc = "t3_expect"
    /\ Called("to_show", <<which_one, text>>, to_show(atspi, objs, which_one, text),
              "exiting")
    /\ UNCHANGED dispatches

NextCounter ==
    \/ T3Buttons
    \/ T3Click
    \/ \E kwargs \in {LabelQuery, LabelTextQuery} : T3Labels(kwargs)
    \/ \E which_one \in Quantifiers, text \in ShownTexts : T3Expect(which_one, text)
    \/ Exit

SpecCounter == InitCounter /\ [][NextCounter]_vars

(***************************************************************************)
(* The tree walker, the matcher and the query engine applied to every      *)
(* application tree and to generated condition sets.                       *)
(***************************************************************************)
Atoms ==
    {<<"nth", IntV(0)>>, <<"nth", IntV(-1)>>,
     <<"when", CallV("is_last")>>,
     <<"role", StrV("label")>>,
     <<"text", ReV("Has pulsado", TRUE)>>, <<"text", CallV("nonempty")>>}

Names(S) == {a[1] : a \in S}

\* the MatchArgs dict holding the conditions of S
Kwargs(S) == [name \in Names(S) |-> (CHOOSE a \in S : a[1] = name)[2]]

CondSets ==
    {Kwargs(S) : S \in {A \in SUBSET Atoms :
                          /\ Cardinality(A) <= MaxConds
                          /\ Cardinality(Names(A)) = Cardinality(A)}}

\* two condition sets whose union is a condition set: no name with two values
Compatible(c1, c2) ==
    \A name \in DOMAIN c1 \cap DOMAIN c2 : c1[name] = c2[name]

InitTree ==
    /\ pc = "tree"
    /\ process = "none"
    /\ kills = 0
    /\ desktop = <<NoneChild, "other", AppName>>
    /\ shown = 0
    /\ clock = 0
    /\ timeout = 0
    /\ app = 1
    /\ atspi \in Apps
    /\ count = 0
    /\ objs = List(<<>>)
    /\ query = NoArgs
    /\ dispatches = 0
    /\ last = NoCall
    /\ exc = "none"

\* list(tree_walk(root))
TreeWalk(root) ==
    /\ pc = "tree"
    /\ last' = [op |-> "tree_walk", exc |-> "none", root |-> root,
                walk |-> tree_walk(atspi, root, ROOT_TREE_PATH)]
    /\ pc' = "tree_done"
    /\ UNCHANGED <<process, kills, desktop, shown, clock, timeout, app, atspi, count, objs,
                   query, dispatches, exc>>

\* the k-th node visited from the application's root, matched against two
\* condition sets and against their union
Match(k, c1, c2) ==
    /\ pc = "tree"
    /\ k <= Len(tree_walk(atspi, app, ROOT_TREE_PATH))
    /\ Compatible(c1, c2)
    /\ LET e == tree_walk(atspi, app, ROOT_TREE_PATH)[k]
       IN  last' = [op |-> "_match", exc |-> "none", obj |-> e.obj, path |-> e.path,
                    c1 |-> c1, c2 |-> c2,
                    m1 |-> matches(atspi, e.obj, e.path, c1),
                    m2 |-> matches(atspi, e.obj, e.path, c2),
                    m12 |-> matches(atspi, e.obj, e.path, c1 @@ c2)]
    /\ pc' = "tree_done"
    /\ UNCHANGED <<process, kills, desktop, shown, clock, timeout, app, atspi, count, objs,
                   query, dispatches, exc>>

\* the values given to an nth condition
NthValues == (0 - MaxNodes)..MaxNodes

\* every nth condition matched against every node visited from root: for each
\* value, the positions of the walk whose node matches nth = value
NthSelect(root) ==
    /\ pc = "tree"
    /\ LET walk == tree_walk(atspi, root, ROOT_TREE_PATH)
       IN  last' = [op |-> "nth", exc |-> "none", root |-> root, walk |-> walk,
                    sel |-> [v \in NthValues |->
                               {k \in 1..Len(walk) :
                                   _match(atspi, walk[k].obj, walk[k].path, "nth", IntV(v))}]]
    /\ pc' = "tree_done"
    /\ UNCHANGED <<process, kills, desktop, shown, clock, timeout, app, atspi, count, objs,
                   query, dispatches, exc>>

\* the conditions of the queries made over several roots
FindArgs ==
    {NoArgs, LabelQuery,
     [nth |-> IntV(0 - 1)],
     [when |-> CallV("is_last"), role |-> StrV("label")],
     [value |-> StrV("<value>")],
     [description |-> ReV("<get_", TRUE)],
     [missing |-> ReV("", TRUE)],
     [role |-> StrV("push button"), value |-> StrV("")]}

\* the attribute names looked up
AttrNames == {"role", "name", "text", "value", "description", "missing"}

\* the lists of at most MaxRoots roots
RootLists(t) == UNION {[1..n -> DOMAIN t] : n \in 0..MaxRoots}

\* objects_in(root_s, **kwargs)
Find(root_s, kwargs) ==
    /\ pc = "tree"
    /\ last' = [op |-> "find", exc |-> "none", root_s |-> root_s, kwargs |-> kwargs,
                result |-> objects_in(atspi, root_s, kwargs)]
    /\ pc' = "tree_done"
    /\ UNCHANGED <<process, kills, desktop, shown, clock, timeout, app, atspi, count, objs,
                   query, dispatches, exc>>

\* obj_get_attr(obj, name)
GetAttr(obj, name) ==
    /\ pc = "tree"
    /\ last' = [op |-> "obj_get_attr", exc |-> "none", obj |-> obj, name |-> name,
                ret |-> obj_get_attr(atspi, obj, name)]
    /\ pc' = "tree_done"
    /\ UNCHANGED <<process, kills, desktop, shown, clock, timeout, app, atspi, count, objs,
                   query, dispatches, exc>>

NextTree ==
    \/ pc = "tree" /\ \E root \in DOMAIN atspi : TreeWalk(root)
    \/ pc = "tree" /\ \E k \in DOMAIN atspi, c1 \in CondSets, c2 \in CondSets : Match(k, c1, c2)
    \/ pc = "tree" /\ \E root \in DOMAIN atspi : NthSelect(root)
    \/ pc = "tree" /\ \E root \in DOMAIN atspi, kwargs \in FindArgs : Find(AsObject(root), kwargs)
    \/ pc = "tree" /\ \E roots \in RootLists(atspi), kwargs \in FindArgs : Find(AsList(roots), kwargs)
    \/ pc = "tree" /\ \E obj \in DOMAIN atspi, name \in AttrNames : GetAttr(obj, name)

SpecTree == InitTree /\ [][NextTree]_vars

(***************************************************************************)
(* Properties.                                                             *)
(***************************************************************************)
\* the objects a call was given: the ones its iterable still had to yield
Given == Remaining(last.given)

\* the do_action calls that invoke the action named a on node obj, once
InvokedOnceOn(obj, a) ==
    /\ Len(last.invoked) = 1
    /\ last.invoked[1][1] = obj
    /\ atspi[obj].actions[last.invoked[1][2] + 1] = a

HasAction(obj, a) == \E i \in 1..Len(atspi[obj].actions) : atspi[obj].actions[i] = a

\* C1 as stated: do(a).on(nodes) with exactly one node invokes a once on that
\* node and on no other; with two or more nodes it fails with the
\* ambiguous-target error and invokes nothing.
C1_OnSoleNodeAlwaysInvokes ==
    last.op = "on" =>
        /\ Len(Given) = 1 => /\ last.exc = "none"
                             /\ InvokedOnceOn(Given[1], last.arg)
        /\ Len(Given) >= 2 => /\ last.exc = "AssertionError"
                              /\ last.invoked = <<>>

\* C1 amended: do(a).on(nodes) with exactly one node that has an action named a
\* invokes a once on that node and on no other; with exactly one node that has
\* no action named a it fails with the action-not-found error and invokes
\* nothing; with two or more nodes it fails with the ambiguous-target error and
\* invokes nothing.
C1_OnSoleNode ==
    last.op = "on" =>
        /\ (Len(Given) = 1 /\ HasAction(Given[1], last.arg)) =>
                /\ last.exc = "none"
                /\ InvokedOnceOn(Given[1], last.arg)
        /\ (Len(Given) = 1 /\ ~HasAction(Given[1], last.arg)) =>
                /\ last.exc = "NotFoundError"
                /\ last.invoked = <<>>
        /\ Len(Given) >= 2 => /\ last.exc = "AssertionError"
                              /\ last.invoked = <<>>

C1_Witness ==
    /\ last.op = "on"
    /\ Len(Given) = 1
    /\ last.exc = "none"
    /\ InvokedOnceOn(Given[1], "click")
    /\ \E obj \in DOMAIN atspi : obj # Given[1] /\ HasAction(obj, "click")

\* C2: when discovery timed out (run returned a Session without app), entering
\* the scope raises before the body runs, and the spawned process has been
\* terminated.
C2_FailedEntryTerminates ==
    pc = "failed" =>
        /\ app = None
        /\ exc = "RuntimeError"
        /\ last = NoCall
        /\ process = "killed"

\* C3: once the scope was entered, leaving it terminates the process exactly
\* once, whether the body completed, an expectation failed or another
\* exception was raised; nothing terminates it before.
C3_ExitKillsOnce ==
    /\ pc \in {"body", "exiting"} => kills = 0 /\ process = "running"
    /\ pc = "done" => kills = 1 /\ process = "killed"

C3_Witness ==
    /\ pc = "done"
    /\ exc = "AssertionError"
    /\ last.op = "to_show"
    /\ kills = 1

\* the text the counter is expected to show after k clicks
ExpectedText(k) ==
    IF k = 0 THEN "Has pulsado 0 veces"
    ELSE IF k = 1 THEN "Has pulsado 1 vez"
    ELSE "Has pulsado " \o ToString(k) \o " veces"

\* C4: the counter starts showing "Has pulsado 0 veces"; after k dispatches of
\* do('click').on(buttons) on the one query result for the button, a fresh
\* query for labels finds the label showing "Has pulsado 1 vez" for k = 1 and
\* "Has pulsado k veces" otherwise; after 4 clicks expect_all over the labels
\* matching ^Has pulsado.* to show "Has pulsado 4 veces" succeeds.
C4_CounterShowsClicks ==
    /\ pc = "t3" => atspi[label1].text = "Has pulsado 0 veces"
    /\ pc = "t3_click" => last.exc = "none" /\ objs = List(<<button>>)
    /\ pc = "t3_expect" =>
        /\ objs.items # <<>>
        /\ \A k \in 1..Len(objs.items) :
              /\ atspi[objs.items[k]].role = "label"
              /\ atspi[objs.items[k]].text = ExpectedText(dispatches)
    /\ ( /\ last.op = "to_show"
         /\ last.arg = <<"all", "Has pulsado 4 veces">>
         /\ query = LabelTextQuery
         /\ dispatches = 4 ) => last.exc = "none"

C4_Witness ==
    /\ pc = "done"
    /\ dispatches = 4
    /\ count = 4
    /\ query = LabelTextQuery
    /\ last.op = "to_show"
    /\ last.arg = <<"all", "Has pulsado 4 veces">>
    /\ last.given = List(<<label1>>)
    /\ last.exc = "none"

\* C5: do(a).on_first(nodes) on the list returned by objects_in invokes the
\* action once on the first node and on no other when the list is non-empty,
\* and fails with the empty-sequence condition, invoking nothing, when it is
\* empty.
C5_OnFirstOfQueryResult ==
    (last.op = "on_first" /\ last.given.type = "list") =>
        /\ Given # <<>> => /\ Len(last.invoked) = 1
                           /\ last.invoked[1][1] = Given[1]
        /\ Given = <<>> => /\ last.exc = "StopIteration"
                           /\ last.invoked = <<>>

\* C6: expect_first(nodes).to_show(t) on the list returned by objects_in
\* succeeds iff the list is non-empty and its first node shows t, and is an
\* assertion failure otherwise.
C6_ExpectFirstOfQueryResult ==
    (last.op = "to_show" /\ last.arg[1] = "first" /\ last.given.type = "list") =>
        /\ last.exc \in {"none", "AssertionError"}
        /\ last.exc = "none" <=> (Given # <<>> /\ atspi[Given[1]].text = last.arg[2])

\* the given candidates that show the text
Showing(text) == {k \in 1..Len(Given) : atspi[Given[k]].text = text}

\* C7: expect_one(nodes).to_show(t) succeeds iff exactly one candidate shows t;
\* with zero or with two or more such candidates it is an assertion failure.
C7_ExpectOneIsExactlyOne ==
    (last.op = "to_show" /\ last.arg[1] = "one") =>
        /\ last.exc \in {"none", "AssertionError"}
        /\ last.exc = "none" <=> Cardinality(Showing(last.arg[2])) = 1

\* two candidates show the text (expect_any and expect_all would succeed)
C7_Witness ==
    /\ last.op = "to_show"
    /\ last.arg[1] = "one"
    /\ Cardinality(Showing(last.arg[2])) = 2
    /\ Len(Given) = 2
    /\ last.exc = "AssertionError"

\* C8: the assertion failure of to_show lists every candidate given to
\* expect*(nodes), with its display form and its text, whether the candidates
\* were given as a list or as a single-pass iterator.
C8_FailureListsEveryCandidate ==
    (last.op = "to_show" /\ last.exc = "AssertionError") =>
        last.msg.texts =
            [k \in 1..Len(Given) |->
                <<atspi[Given[k]].role \o "('" \o atspi[Given[k]].name \o "')",
                  atspi[Given[k]].text>>]

RECURSIVE Closure(_, _)
\* the nodes reachable from the nodes of S by child links, S included
Closure(t, S) ==
    LET more == S \cup {c \in DOMAIN t : \E o \in S : \E i \in 1..Len(t[o].children) :
                                             t[o].children[i] = c}
    IN  IF more = S THEN S ELSE Closure(t, more)

Subtree(t, root) == Closure(t, {root})

\* the position at which a walk visits obj (0 when it does not)
PosIn(walk, obj) ==
    IF \E k \in 1..Len(walk) : walk[k].obj = obj
    THEN CHOOSE k \in 1..Len(walk) : walk[k].obj = obj
    ELSE 0

C10_AndComposition ==
    last.op = "_match" =>
        /\ last.m12 = (last.m1 /\ last.m2)
        /\ last.c1 = NoArgs => last.m1
        /\ last.c2 = NoArgs => last.m2

C10_Witness ==
    /\ last.op = "_match"
    /\ DOMAIN last.c1 = {"nth", "role"}
    /\ DOMAIN last.c2 = {"role", "text"}
    /\ last.c2["text"].type = "re.Pattern"
    /\ last.m1 /\ last.m2 /\ last.m12

\* the sibling lists of a walk: the root alone, and the children of each node
\* visited, as sets of positions of the walk
SiblingLists(t, walk) ==
    {{1}} \cup
    {{PosIn(walk, t[walk[k].obj].children[i]) : i \in 1..Len(t[walk[k].obj].children)}
        : k \in {j \in 1..Len(walk) : t[walk[j].obj].children # <<>>}}

\* C11: in a sibling list of size n >= 1, nth = -k matches the same node as
\* nth = n-k for 1 <= k <= n (so nth = -1 matches the last sibling, as
\* nth = n-1 does), and one nth value matches at most one node of the list.
C11_NegativeNth ==
    last.op = "nth" =>
        \A S \in SiblingLists(atspi, last.walk) :
            LET n == Cardinality(S)
            IN  /\ \A k \in 1..n :
                      /\ last.sel[0 - k] \cap S = last.sel[n - k] \cap S
                      /\ Cardinality(last.sel[n - k] \cap S) = 1
                /\ \A v \in DOMAIN last.sel : Cardinality(last.sel[v] \cap S) <= 1

\* a list of two or more siblings whose last one is matched by nth = -1
C11_Witness ==
    /\ last.op = "nth"
    /\ \E S \in SiblingLists(atspi, last.walk) :
          /\ Cardinality(S) >= 2
          /\ \E k \in S : /\ last.sel[0 - 1] \cap S = {k}
                          /\ \A j \in S : j <= k
                          /\ last.sel[0 - Cardinality(S)] \cap S # {k}

\* the roots a query was given, as a list
RootsOf(root_s) == IF root_s.type = "Object" THEN <<root_s.v>> ELSE root_s.v

\* the entries of the walk from root whose node satisfies every condition
MatchingFrom(t, root, kwargs) ==
    SelectSeq(tree_walk(t, root, ROOT_TREE_PATH),
              LAMBDA e : \A name \in DOMAIN kwargs :
                            _match(t, e.obj, e.path, name, kwargs[name]))

RECURSIVE PerRoot(_, _, _, _)
\* the matching nodes of the k-th root's subtree, then those of the roots after
PerRoot(t, roots, k, kwargs) ==
    IF k > Len(roots) THEN <<>>
    ELSE [j \in 1..Len(MatchingFrom(t, roots[k], kwargs)) |->
             MatchingFrom(t, roots[k], kwargs)[j].obj]
         \o PerRoot(t, roots, k + 1, kwargs)

Occurrences(seq, x) == Cardinality({k \in 1..Len(seq) : seq[k] = x})

RECURSIVE SubtreeSizes(_, _, _)
SubtreeSizes(t, roots, k) ==
    IF k > Len(roots) THEN 0
    ELSE Cardinality(Subtree(t, roots[k])) + SubtreeSizes(t, roots, k + 1)

\* C12: objects_in(roots, conditions) is the matching nodes of each root's
\* subtree in tree_walk order, one root after the other in the order given;
\* a matching node appears once per root it lies under; with no conditions
\* the result is every node of every subtree.
C12_ObjectsInConcatenates ==
    last.op = "find" =>
        LET roots == RootsOf(last.root_s)
        IN  /\ last.result = PerRoot(atspi, roots, 1, last.kwargs)
            /\ \A x \in DOMAIN atspi :
                  Occurrences(last.result, x) =
                      Cardinality({j \in 1..Len(roots) :
                          \E e \in {MatchingFrom(atspi, roots[j], last.kwargs)[i] :
                                      i \in 1..Len(MatchingFrom(atspi, roots[j], last.kwargs))} :
                              e.obj = x})
            /\ last.kwargs = NoArgs =>
                  /\ Len(last.result) = SubtreeSizes(atspi, roots, 1)
                  /\ \A x \in DOMAIN atspi :
                        Occurrences(last.result, x) =
                            Cardinality({j \in 1..Len(roots) : x \in Subtree(atspi, roots[j])})

\* a node under two overlapping roots, the inner root given first
C12_Witness ==
    /\ last.op = "find"
    /\ last.root_s.type = "list"
    /\ Len(last.root_s.v) = 2
    /\ last.root_s.v[1] # last.root_s.v[2]
    /\ last.root_s.v[1] \in Subtree(atspi, last.root_s.v[2])
    /\ last.kwargs = LabelQuery
    /\ Occurrences(last.result, last.root_s.v[1]) = 2
    /\ Len(last.result) >= 3

\* one of the three tiers of obj_get_attr resolves name on obj
Resolves(t, obj, name) ==
    \/ name \in {"role", "name", "text"}
    \/ name \in t[obj].props
    \/ name \in t[obj].getters

\* the names of the literal and regex attribute conditions of kwargs
AttrConds(kwargs) ==
    {name \in DOMAIN kwargs \ {"nth", "when"} :
        kwargs[name].type \in {"str", "re.Pattern"}}

\* C13: for an attribute name that no tier resolves, obj_get_attr returns an
\* AttributeError value naming the node and the attribute, without raising;
\* a literal or regex condition on such an attribute is false for that node,
\* and objects_in completes with the matches among the other nodes.
C13_LookupFailureIsNoMatch ==
    /\ last.op = "obj_get_attr" =>
          /\ last.exc = "none"
          /\ Resolves(atspi, last.obj, last.name) <=> last.ret.ok
          /\ ~Resolves(atspi, last.obj, last.name) =>
                /\ last.ret.cls = "AttributeError"
                /\ last.ret.v = atspi[last.obj].role \o "('" \o atspi[last.obj].name
                                \o "') has no attribute " \o last.name
    /\ last.op = "find" =>
          /\ last.exc = "none"
          /\ \A k \in 1..Len(last.result), name \in AttrConds(last.kwargs) :
                Resolves(atspi, last.result[k], name)
          /\ \A j \in 1..Len(RootsOf(last.root_s)) :
                \A e \in {MatchingFrom(atspi, RootsOf(last.root_s)[j], last.kwargs)[i] :
                     i \in 1..Len(MatchingFrom(atspi, RootsOf(last.root_s)[j], last.kwargs))} :
                    Occurrences(last.result, e.obj) >= 1

\* a query on an attribute some nodes lack, which returns the others
C13_Witness ==
    /\ last.op = "find"
    /\ last.kwargs = [value |-> StrV("<value>")]
    /\ last.root_s.type = "Object"
    /\ last.root_s.v = 1
    /\ last.result # <<>>
    /\ \E x \in DOMAIN atspi : ~Resolves(atspi, x, "value")

\* the time of the last poll of a wait with the given timeout
LastPoll(t) == SleepTime * ((t - 1) \div SleepTime)

\* the time of the first poll at or after time at
PollFrom(at) == SleepTime * ((at + SleepTime - 1) \div SleepTime)

\* C14 as stated: the returned Session has the app if and only if the
\* application appeared in the desktop before the timeout elapsed.
C14_PresentIffShownBeforeTimeout ==
    pc = "returned" => (app # None <=> (shown # None /\ shown < timeout))

\* C14: run() always returns a Session, without raising; the loop ends at the
\* first poll that finds the application or once the timeout has elapsed; the
\* app is present if and only if the application appeared no later than the
\* last poll, the polls being SleepTime apart while the timeout has not elapsed.
C14_PresentIffShownByLastPoll ==
    /\ [](pc = "returned" =>
            /\ exc = "none"
            /\ process = "running"
            /\ app # None <=> (shown # None /\ shown <= LastPoll(timeout))
            /\ app # None => clock = PollFrom(shown) /\ clock < timeout
            /\ app = None => clock = LastPoll(timeout) + SleepTime /\ clock >= timeout)
    /\ (pc = "waiting") ~> (pc = "returned")

\* the application appeared before the timeout elapsed, after the last poll
C14_Witness ==
    /\ pc = "returned"
    /\ app = None
    /\ shown # None
    /\ shown < timeout

\* the positions of the given nodes that have no action named a
Lacking(a) == {k \in 1..Len(Given) : ~HasAction(Given[k], a)}

\* the first n given nodes had the action named a invoked once each, in order
InvokedInOrder(n, a) ==
    /\ Len(last.invoked) = n
    /\ \A k \in 1..n :
          /\ last.invoked[k][1] = Given[k]
          /\ atspi[Given[k]].actions[last.invoked[k][2] + 1] = a

\* C15: do(a).on_all(nodes) invokes a on the nodes in sequence order, once per
\* occurrence; at the first node without an action named a it fails with the
\* action-not-found error naming that node and its actions, the nodes before
\* it have had a invoked once each, and that node and those after it none.
C15_OnAllStopsAtFirstLacking ==
    last.op = "on_all" =>
        IF Lacking(last.arg) = {}
        THEN /\ last.exc = "none"
             /\ InvokedInOrder(Len(Given), last.arg)
        ELSE LET j == Least(Lacking(last.arg))
             IN  /\ last.exc = "NotFoundError"
                 /\ last.msg.widget = atspi[Given[j]].role \o "('" \o atspi[Given[j]].name \o "')"
                 /\ last.msg.action = last.arg
                 /\ last.msg.names = atspi[Given[j]].actions
                 /\ InvokedInOrder(j - 1, last.arg)

\* a failure at a node that has nodes before it and after it
C15_Witness ==
    /\ last.op = "on_all"
    /\ last.exc = "NotFoundError"
    /\ Len(last.invoked) >= 1
    /\ Len(Given) >= Len(last.invoked) + 2

=============================================================================
